---- MODULE Spec2Model ----
(***************************************************************************)
(* tudorminator/timestamp: a model of the three scripts of the repository. *)
(*   "old"  src/timestamp.js              file mode, first revision        *)
(*   "new"  src/unnamed/part_001 1-380    file mode, changed pattern,      *)
(*                                        -q / -n options, summary JSON    *)
(*   "dir"  src/unnamed/part_001 381-548  directory mode (year / month)    *)
(* Strings are sequences of one-character strings, so that the regular     *)
(* expressions, slice, trim and replace are computed character by          *)
(* character as the JavaScript does.                                       *)
(***************************************************************************)
EXTENDS Integers, Sequences, FiniteSets, TLC

VARIABLES
    pName,        \* parseFileName: the argument fileName
    pRev,         \* parseFileName: which revision's timeStampRegex is used
    pOut,         \* parseFileName: the returned string, or Unset before the call
    prog,         \* which script runs: "old", "new" or "dir"
    pc,           \* position of the script
    opts,         \* command line / environment: supportsExif, skipEXIF, skipSummary, lsThrows
    disk,         \* the file system: name -> modification time (a string)
    files,        \* file mode: the filtered, sorted list
    index,        \* file mode: forEach index (0-based) of the next item
    skipped,      \* counter
    processed,    \* counter
    errors,       \* counter
    exitCode,     \* the exitCode variable of the script
    summaryObj,   \* [date, files]
    artifact,     \* the persisted _h5ai.changes.json, or NoArtifact
    cursorHidden, \* terminal state
    exitStatus,   \* the status the process ended with, or Running
    calls,        \* history: every processFile call [run, name, candidate, mTime, touched, result, outcome]
    runNo,        \* how many times the script has been started
    dpos,         \* directory mode: the directory and sub-directory the loops are at
    dstat,        \* directory mode: the {atime, mtime} last read by fs.stat
    pending,      \* directory mode: how many fs.utimes calls are issued and not yet settled
    writes        \* directory mode: the updateTimes calls for the current directory [path, from, target]

parseVars == <<pName, pRev, pOut>>
runVars == <<prog, pc, opts, disk, files, index, skipped, processed, errors, exitCode,
             summaryObj, artifact, cursorHidden, exitStatus, calls, runNo>>
dirVars == <<dpos, dstat, pending, writes>>
vars == <<parseVars, runVars, dirVars>>

----------------------------------------------------------------------------
(* Characters and strings *)

Digits == {"0", "1", "2", "3", "4", "5", "6", "7", "8", "9"}

IsDigit(c) == c \in Digits

\* JavaScript white space as far as the model's alphabet has any
IsSpace(c) == c = " "

RECURSIVE TrimLeft(_)
TrimLeft(s) == IF s # <<>> /\ IsSpace(Head(s)) THEN TrimLeft(Tail(s)) ELSE s

RECURSIVE TrimRight(_)
TrimRight(s) ==
    IF s # <<>> /\ IsSpace(s[Len(s)]) THEN TrimRight(SubSeq(s, 1, Len(s) - 1)) ELSE s

\* String.prototype.trim
Trim(s) == TrimRight(TrimLeft(s))

\* (a variant that leaves the separators of the file name in place)
ReplaceNotNumberKept(s, by) == s

\* str.replace(/[^\d]/g, by), by a string of one character
ReplaceNotNumber(s, by) == [i \in 1..Len(s) |-> IF IsDigit(s[i]) THEN s[i] ELSE by]

\* str.replace(/[^\d]/g, '')
RemoveNotNumber(s) == SelectSeq(s, IsDigit)

\* str.slice(0, -n)
SliceOff(s, n) == SubSeq(s, 1, Len(s) - n)

\* String.prototype.toLowerCase on the letters the model uses
Lower(c) ==
    CASE c = "J" -> "j" [] c = "P" -> "p" [] c = "G" -> "g" [] c = "E" -> "e"
      [] c = "M" -> "m" [] c = "O" -> "o" [] c = "V" -> "v" [] c = "A" -> "a"
      [] c = "I" -> "i" [] c = "N" -> "n" [] c = "F" -> "f"
      [] OTHER -> c

----------------------------------------------------------------------------
(* The regular expressions: a pattern is a sequence of quantified character *)
(* classes, matched as a backtracking engine does: leftmost start, every    *)
(* quantifier greedy, the first alternative that lets the rest match wins.  *)

Unbounded == -1

InClass(c, cls) ==
    CASE cls = "digit"        -> IsDigit(c)             \* \d
      [] cls = "any"          -> TRUE                   \* .  (no line terminator in a name)
      [] cls = "notdigit"     -> ~IsDigit(c)            \* [^\d]
      [] cls = "nothyphendigit" -> ~IsDigit(c) /\ c # "-" \* [^-\d]

Atom(cls, min, max) == [cls |-> cls, min |-> min, max |-> max]

\* /(\d{2,4}.?\d{2}.?\d{2})[^\d]*(\d{0,2}.?\d{0,2}.?\d{0,2})/miu
timeStampRegexOld ==
    << Atom("digit", 2, 4), Atom("any", 0, 1), Atom("digit", 2, 2), Atom("any", 0, 1),
       Atom("digit", 2, 2),
       Atom("notdigit", 0, Unbounded),
       Atom("digit", 0, 2), Atom("any", 0, 1), Atom("digit", 0, 2), Atom("any", 0, 1),
       Atom("digit", 0, 2) >>

\* /(\d{2,4}.?\d{2}.?\d{2})[^\d]*(\d{0,2}.?\d{0,2}[^-\d]?\d{0,2})/miu
timeStampRegexNew ==
    << Atom("digit", 2, 4), Atom("any", 0, 1), Atom("digit", 2, 2), Atom("any", 0, 1),
       Atom("digit", 2, 2),
       Atom("notdigit", 0, Unbounded),
       Atom("digit", 0, 2), Atom("any", 0, 1), Atom("digit", 0, 2),
       Atom("nothyphendigit", 0, 1),
       Atom("digit", 0, 2) >>

timeStampRegex(rev) == IF rev = "old" THEN timeStampRegexOld ELSE timeStampRegexNew

\* the last atom of capture group 1, and the atom before capture group 2
Group1Last == 5
Group2Before == 6

NoMatch == << -1 >>

\* how many characters from pos on are in the class, at most max
RECURSIVE RunLength(_, _, _, _)
RunLength(s, pos, cls, max) ==
    IF max = 0 \/ pos > Len(s) \/ ~InClass(s[pos], cls) THEN 0
    ELSE 1 + RunLength(s, pos + 1, cls, IF max = Unbounded THEN max ELSE max - 1)

RECURSIVE MatchAtoms(_, _, _, _), TryCount(_, _, _, _, _)
\* atoms k.. of re against s from pos: the end position of each atom, or NoMatch
MatchAtoms(re, s, pos, k) ==
    IF k > Len(re) THEN <<>>
    ELSE TryCount(re, s, pos, k, RunLength(s, pos, re[k].cls, re[k].max))

TryCount(re, s, pos, k, n) ==
    IF n < re[k].min THEN NoMatch
    ELSE LET rest == MatchAtoms(re, s, pos + n, k + 1)
         IN  IF rest # NoMatch THEN <<pos + n>> \o rest
             ELSE TryCount(re, s, pos, k, n - 1)

RECURSIVE ExecFrom(_, _, _)
\* RegExp.prototype.exec: <<start, end of atom 1, end of atom 2, ...>> of the leftmost
\* match, or NoMatch
ExecFrom(re, s, start) ==
    IF start > Len(s) + 1 THEN NoMatch
    ELSE LET ends == MatchAtoms(re, s, start, 1)
         IN  IF ends # NoMatch THEN <<start>> \o ends
             ELSE ExecFrom(re, s, start + 1)

Exec(re, s) == ExecFrom(re, s, 1)

----------------------------------------------------------------------------
(* parseFileName *)

\* what the parser returns when it reports 'Unexpected filename format!'
Empty == <<>>

\* Array.from(time).filter(elem => notNumberRegEx.test(elem)).length: notNumberRegEx
\* is global, so test() starts at its lastIndex, sets it to 1 after a match on the
\* one-character string and resets it to 0 after a failure.
RECURSIVE CountSeparators(_, _)
CountSeparators(time, lastIndex) ==
    IF time = <<>> THEN 0
    ELSE IF lastIndex = 0 /\ ~IsDigit(Head(time))
         THEN 1 + CountSeparators(Tail(time), 1)
         ELSE CountSeparators(Tail(time), 0)

separatorsCount(time) == CountSeparators(time, 0)

\* s.match(/.{1,2}/g).join(':') on a string that is not empty
RECURSIVE GroupByTwo(_)
GroupByTwo(s) ==
    IF Len(s) <= 2 THEN s
    ELSE SubSeq(s, 1, 2) \o <<":">> \o GroupByTwo(SubSeq(s, 3, Len(s)))

\* ''.match(/.{1,2}/g) is null and .join throws a TypeError
TypeError == <<"TypeError">>

AddSeparators(time) ==
    IF separatorsCount(time) > 0
    THEN IF separatorsCount(time) < 2
         THEN IF RemoveNotNumber(time) = <<>> THEN TypeError
              ELSE GroupByTwo(RemoveNotNumber(time))
         ELSE time
    ELSE <<"0", "0", ":", "0", "0", ":", "0", "0">>

\* the length below which ':00' is appended
TimeLength == 8

AddSeconds(time) ==
    IF Len(time) > 0 /\ Len(time) < TimeLength THEN time \o <<":", "0", "0">> ELSE time

parseFileNameWith(re, fileName) ==
    LET match == Exec(re, SliceOff(fileName, 4))
    IN  IF match = NoMatch THEN Empty
        ELSE LET s     == SliceOff(fileName, 4)
                 g1    == SubSeq(s, match[1], match[1 + Group1Last] - 1)
                 g2    == SubSeq(s, match[1 + Group2Before], match[1 + Len(re)] - 1)
                 date  == ReplaceNotNumber(Trim(g1), "-")
                 time0 == ReplaceNotNumber(Trim(g2), ":")
                 time1 == AddSeparators(time0)
             IN  IF time1 = TypeError THEN TypeError
                 ELSE date \o <<" ">> \o AddSeconds(time1)

parseFileName(rev, fileName) == parseFileNameWith(timeStampRegex(rev), fileName)

----------------------------------------------------------------------------
(* The file names parseFileName is applied to *)

Years == { <<"2", "0", "1", "4">>, <<"1", "4">> }
DateSeparators == { <<"-">>, <<".">>, <<>> }
GapForms == { <<" ">>, <<"_">>, <<>> }
Hours == { <<"1", "1">>, <<"0", "9">> }
Minutes == { <<"4", "8">> }
Seconds == { <<"0", "2">> }
TimeSeparators1 == { <<"-">>, <<".">>, <<";">>, <<>> }
TimeSeparators2 == { <<"-">>, <<".">>, <<>> }

Extensions ==
    { <<"j", "p", "g">>, <<"j", "p", "e", "g">>, <<"p", "n", "g">>, <<"g", "i", "f">>,
      <<"m", "p", "4">>, <<"m", "4", "v">>, <<"m", "o", "v">>, <<"a", "v", "i">> }

DateForms == { y \o d \o <<"1", "2">> \o d \o <<"2", "5">> : y \in Years, d \in DateSeparators }

TimeForms ==
    { <<>> }
    \cup { h \o a \o m : h \in Hours, a \in TimeSeparators1, m \in Minutes }
    \cup { h \o a \o m \o b \o x :
             h \in Hours, a \in TimeSeparators1, m \in Minutes, b \in TimeSeparators2,
             x \in Seconds }
    \cup { <<"1", "1", ";", "4", "8", "-", "2">>,
           <<"1", "1", "-", "-", "4", "8">>,
           <<"1", "1", "-", "4", "8", " ", "c", "o", "p", "y">> }

FileNames ==
    { d \o g \o t \o <<".">> \o e :
        d \in DateForms, g \in GapForms, t \in TimeForms, e \in Extensions }
    \cup { <<"h", "o", "l", "i", "d", "a", "y", ".">> \o e : e \in Extensions }

----------------------------------------------------------------------------
(* Specification SpecParse: parseFileName applied to one file name *)

Unset == <<"unset">>

\* fs.stat has not resolved
NoStat == [year |-> 0, month |-> 0, day |-> 0, time |-> "none"]
Running == -1
\* no _h5ai.changes.json in the directory
NoArtifact == [date |-> 0, files |-> <<>>]

\* the variables of the scripts, while no script runs
Idle ==
    /\ prog = "none" /\ pc = "idle" /\ opts = <<>> /\ disk = <<>> /\ files = <<>>
    /\ index = 0 /\ skipped = 0 /\ processed = 0 /\ errors = 0 /\ exitCode = 0
    /\ summaryObj = <<>> /\ artifact = NoArtifact /\ cursorHidden = FALSE
    /\ exitStatus = Running /\ calls = <<>> /\ runNo = 0
    /\ dpos = <<>> /\ dstat = NoStat /\ pending = 0 /\ writes = <<>>

InitParse ==
    /\ pName \in FileNames
    /\ pRev \in {"old", "new"}
    /\ pOut = Unset
    /\ Idle

ParseFileName ==
    /\ pOut = Unset
    /\ pOut' = parseFileName(pRev, pName)
    /\ UNCHANGED <<pName, pRev, runVars, dirVars>>

NextParse == ParseFileName

SpecParse == InitParse /\ [][NextParse]_vars

----------------------------------------------------------------------------
(* File mode: the files of the target directory *)

\* the characters of the names, in the order of their UTF-16 code units
CodeUnits ==
    << " ", "-", ".", "/", "0", "1", "2", "3", "4", "5", "6", "7", "8", "9", ":", ";",
       "B", "G", "J", "P", "_", "a", "c", "d", "e", "f", "g", "h", "i", "j", "l", "m",
       "n", "o", "p", "s", "t", "v", "x", "y" >>

CodeUnit(c) == CHOOSE i \in 1..Len(CodeUnits) : CodeUnits[i] = c

RECURSIVE StringLess(_, _)
\* a < b for two strings, as Array.prototype.sort compares them by default
StringLess(a, b) ==
    IF b = <<>> THEN FALSE
    ELSE IF a = <<>> THEN TRUE
    ELSE IF Head(a) = Head(b) THEN StringLess(Tail(a), Tail(b))
    ELSE CodeUnit(Head(a)) < CodeUnit(Head(b))

RECURSIVE Sort(_)
\* Array.prototype.sort of a list of distinct names
Sort(S) ==
    IF S = {} THEN <<>>
    ELSE LET least == CHOOSE x \in S : \A y \in S \ {x} : StringLess(x, y)
         IN  <<least>> \o Sort(S \ {least})

StartsWith(s, t) == Len(s) >= Len(t) /\ SubSeq(s, 1, Len(t)) = t
EndsWith(s, t) == Len(s) >= Len(t) /\ SubSeq(s, Len(s) - Len(t) + 1, Len(s)) = t
Contains(s, t) == \E i \in 1..(Len(s) - Len(t) + 1) : SubSeq(s, i, i + Len(t) - 1) = t
LowerCase(s) == [i \in 1..Len(s) |-> Lower(s[i])]

\* /(?:jpe?g)|(?:png)|(?:gif)|(?:mp4)|(?:m4v)|(?:mov)|(?:avi)$/i .test(fileName):
\* the $ belongs to the last alternative only
fileTypesRegEx(fileName) ==
    LET n == LowerCase(fileName)
    IN  \/ Contains(n, <<"j", "p", "g">>) \/ Contains(n, <<"j", "p", "e", "g">>)
        \/ Contains(n, <<"p", "n", "g">>) \/ Contains(n, <<"g", "i", "f">>)
        \/ Contains(n, <<"m", "p", "4">>) \/ Contains(n, <<"m", "4", "v">>)
        \/ Contains(n, <<"m", "o", "v">>) \/ EndsWith(n, <<"a", "v", "i">>)

\* /^(?!\._).*[^/]$/ .test(fileName)
regularFileRegEx(fileName) ==
    /\ ~StartsWith(fileName, <<".", "_">>)
    /\ fileName # <<>>
    /\ fileName[Len(fileName)] # "/"

\* .filter(fileName => fileTypesRegEx.test(fileName) && regularFileRegEx.test(fileName)).sort()
FilterFiles(listing) == Sort({ n \in listing : fileTypesRegEx(n) /\ regularFileRegEx(n) })

\* /(?:jpe?g)|(?:png)|(?:gif)$/i .test(file)
exifTypesRegEx(file) ==
    LET n == LowerCase(file)
    IN  \/ Contains(n, <<"j", "p", "g">>) \/ Contains(n, <<"j", "p", "e", "g">>)
        \/ Contains(n, <<"p", "n", "g">>) \/ EndsWith(n, <<"g", "i", "f">>)

NoExif == <<"none">>
ExifThrows == <<"throws">>
Epoch == <<"2", "0", "0", "0", "-", "0", "1", "-", "0", "1", " ", "0", "0", ":", "0", "0", ":", "0", "0">>

\* what `ls -1Ap` can list in the target directory and how the file behaves: the name
\* (a directory with '/' appended), the modification time before the first run, what
\* exiftool answers (a DateTimeOriginal, no such field, or an error), whether stat
\* succeeds on it and whether touch may change it
DirectoryEntries ==
    {
      [name |-> <<"2", "0", "1", "4", "-", "1", "2", "-", "2", "5", " ", "1", "1", "-", "4", "8", "-", "0", "2", ".", "j", "p", "g">>,
       mtime |-> Epoch, exif |-> NoExif,
       statOk |-> TRUE, writable |-> TRUE],
      [name |-> <<"2", "0", "1", "4", "1", "2", "2", "5", ".", "m", "p", "4">>,
       mtime |-> Epoch, exif |-> NoExif,
       statOk |-> TRUE, writable |-> TRUE],
      [name |-> <<"h", "o", "l", "i", "d", "a", "y", ".", "j", "p", "g">>,
       mtime |-> Epoch, exif |-> NoExif,
       statOk |-> TRUE, writable |-> TRUE],
      [name |-> <<"a", ".", "p", "n", "g">>,
       mtime |-> Epoch, exif |-> <<"2", "0", "1", "9", ":", "0", "7", ":", "0", "4", " ", "1", "0", ":", "2", "0", ":", "3", "0">>,
       statOk |-> TRUE, writable |-> TRUE],
      [name |-> <<"2", "0", "1", "4", "-", "1", "2", "-", "2", "5", " ", "1", "1", "-", "4", "8", ".", "j", "p", "e", "g">>,
       mtime |-> Epoch, exif |-> NoExif,
       statOk |-> TRUE, writable |-> TRUE],
      [name |-> <<"2", "0", "1", "4", "-", "1", "2", "-", "2", "5", " ", "0", "9", ".", "4", "8", ".", "g", "i", "f">>,
       mtime |-> <<"2", "0", "1", "4", "-", "1", "2", "-", "2", "5", " ", "0", "9", ":", "4", "8", ":", "0", "0">>, exif |-> NoExif,
       statOk |-> TRUE, writable |-> TRUE],
      [name |-> <<"2", "0", "1", "4", "-", "1", "2", "-", "2", "5", " ", "1", "1", ".", "4", "8", ".", "0", "2", ".", "m", "o", "v">>,
       mtime |-> Epoch, exif |-> NoExif,
       statOk |-> TRUE, writable |-> FALSE],
      [name |-> <<"2", "0", "1", "4", "-", "1", "2", "-", "2", "5", " ", "0", "9", "-", "4", "8", ".", "p", "n", "g">>,
       mtime |-> Epoch, exif |-> NoExif,
       statOk |-> FALSE, writable |-> TRUE],
      [name |-> <<"j", "p", "g", ".", "t", "x", "t">>,
       mtime |-> Epoch, exif |-> NoExif,
       statOk |-> TRUE, writable |-> TRUE],
      [name |-> <<"n", "o", "t", "e", "s", ".", "t", "x", "t">>,
       mtime |-> Epoch, exif |-> NoExif,
       statOk |-> TRUE, writable |-> TRUE],
      [name |-> <<"m", "o", "v", "/">>,
       mtime |-> Epoch, exif |-> NoExif,
       statOk |-> TRUE, writable |-> TRUE],
      [name |-> <<".", "_", "a", ".", "p", "n", "g">>,
       mtime |-> Epoch, exif |-> <<"2", "0", "1", "9", ":", "0", "7", ":", "0", "4", " ", "1", "0", ":", "2", "0", ":", "3", "0">>,
       statOk |-> TRUE, writable |-> TRUE],
      [name |-> <<"B", ".", "J", "P", "G">>,
       mtime |-> Epoch, exif |-> ExifThrows,
       statOk |-> TRUE, writable |-> TRUE] }

EntryNames == { e.name : e \in DirectoryEntries }
EntryOf(n) == CHOOSE e \in DirectoryEntries : e.name = n

\* the most entries a target directory holds
MaxEntries == 2

\* parseFileName on every name of the target directory, computed once
ParsedNames ==
    [rev \in {"old", "new"} |-> [n \in EntryNames |-> parseFileName(rev, n)]]

\* `${path}${fileName}`
targetDirectory == <<"/", "d", "/">>

----------------------------------------------------------------------------
(* File mode: the capabilities processFile calls *)

RECURSIVE ReplaceFirst(_, _, _)
\* str.replace(from, to) with a string pattern: the first occurrence only
ReplaceFirst(s, from, to) ==
    IF s = <<>> THEN s
    ELSE IF Head(s) = from THEN <<to>> \o Tail(s)
    ELSE <<Head(s)>> \o ReplaceFirst(Tail(s), from, to)

\* getExifData: [value, errors], value '' when there is no DateTimeOriginal
getExifData(supportsExif, file, answer) ==
    IF ~supportsExif \/ ~exifTypesRegEx(file) THEN [value |-> <<>>, errors |-> 0]
    ELSE IF answer = ExifThrows THEN [value |-> <<>>, errors |-> 1]
    ELSE IF answer = NoExif THEN [value |-> <<>>, errors |-> 0]
    ELSE [value |-> ReplaceFirst(ReplaceFirst(Trim(answer), ":", "-"), ":", "-"),
          errors |-> 0]

\* getModifiedTime: `stat -c %y` cut at the '.', or '' and one error when stat fails
getModifiedTime(mtimeOnDisk, statOk) ==
    IF statOk THEN [value |-> mtimeOnDisk, errors |-> 0] ELSE [value |-> <<>>, errors |-> 1]

Invalid == <<"invalid">>

Shape(s) == [i \in 1..Len(s) |-> IF IsDigit(s[i]) THEN "D" ELSE s[i]]

DigitValue(c) == CHOOSE v \in 0..9 : CodeUnits[v + 5] = c

\* `touch -cm --date=timeStamp`: the modification time GNU touch sets, as
\* `stat -c %y` prints it afterwards, or Invalid when it rejects the date.
\* It reads YYYY-MM-DD, YYYYMMDD and YY-MM-DD dates followed by HH:mm:ss (a year YY
\* below 69 as 20YY).
TouchDenotes(timeStamp) ==
    LET sh == Shape(timeStamp)
        n  == Len(timeStamp)
        hms == <<" ", "D", "D", ":", "D", "D", ":", "D", "D">>
    IN  IF sh = <<"D", "D", "D", "D", "-", "D", "D", "-", "D", "D">> \o hms
        THEN timeStamp
        ELSE IF sh = <<"D", "D", "D", "D", "D", "D", "D", "D">> \o hms
        THEN SubSeq(timeStamp, 1, 4) \o <<"-">> \o SubSeq(timeStamp, 5, 6) \o <<"-">>
             \o SubSeq(timeStamp, 7, n)
        ELSE IF sh = <<"D", "D", "-", "D", "D", "-", "D", "D">> \o hms
        THEN (IF 10 * DigitValue(timeStamp[1]) + DigitValue(timeStamp[2]) < 69
              THEN <<"2", "0">> ELSE <<"1", "9">>) \o timeStamp
        ELSE Invalid

\* touchFile: 0, or 1 when the command fails (a rejected date, or the file system
\* refuses the change)
touchFile(timeStamp, writable) ==
    IF TouchDenotes(timeStamp) # Invalid /\ writable THEN 0 ELSE 1

\* (a variant that touches every file, whatever its modification time)
NeedsChangeAlways(candidate, mTime) == TRUE

\* exifDateTime !== mTime, timeStampFromFilename !== mTime: change only if necessary
NeedsChange(candidate, mTime) == candidate # mTime

\* (a variant that records every processed name, changed or not)
SummaryFilesAll(list, fileName, touchResult) == Append(list, fileName)

\* summaryObj.files.push(fileName) after a successful touch
SummaryFiles(list, fileName, touchResult) ==
    IF touchResult = 0 THEN Append(list, fileName) ELSE list

NotTouched == -1

\* (a variant in which a name that cannot be parsed is counted in no counter)
SkippedParsedOnly(parseError, touched) == IF ~parseError /\ ~touched THEN 1 ELSE 0

\* skipped += 1: the candidate equals mTime, or the file name cannot be parsed
SkippedIncrement(parseError, touched) == IF parseError \/ ~touched THEN 1 ELSE 0

\* parseFileName(fileName) for the names of the target directory
timeStampFromFilename(rev, fileName) == ParsedNames[rev][fileName]

\* processFile(fileName) in revision rev with the options o, when the file's
\* modification time is mtimeOnDisk: everything the call decides
processFile(rev, o, fileName, mtimeOnDisk) ==
    LET file  == targetDirectory \o fileName
        statOk == EntryOf(fileName).statOk
        writable == EntryOf(fileName).writable
        exif  == IF rev = "new" /\ o.skipEXIF THEN [value |-> <<>>, errors |-> 0]
                 ELSE getExifData(o.supportsExif, file, EntryOf(fileName).exif)
        stat  == getModifiedTime(mtimeOnDisk, statOk)
        mTime == stat.value
        fromName  == IF exif.value # <<>> THEN Empty ELSE timeStampFromFilename(rev, fileName)
        candidate == IF exif.value # <<>> THEN exif.value ELSE fromName
        parseError == exif.value = <<>> /\ fromName = Empty
        touched == candidate # Empty /\ NeedsChange(candidate, mTime)
        touchResult == IF touched THEN touchFile(candidate, writable) ELSE NotTouched
    IN  [ name |-> fileName,
          source |-> IF exif.value # <<>> THEN "EXIF" ELSE "parsed",
          candidate |-> candidate,
          mTime |-> mTime,
          touched |-> touched,
          touchResult |-> touchResult,
          outcome |-> IF parseError THEN "ParseError"
                      ELSE IF ~touched THEN "Skipped"
                      ELSE IF touchResult = 0 THEN "Changed" ELSE "WriteError",
          skipped |-> SkippedIncrement(parseError, touched),
          processed |-> IF touchResult = 0 THEN 1 ELSE 0,
          errors |-> exif.errors + stat.errors
                     + (IF parseError THEN 2 ELSE 0)
                     + (IF touchResult = 1 THEN 1 ELSE 0),
          exitCode |-> IF touchResult = 1 THEN 1 ELSE 0,
          mtimeAfter |-> IF touchResult = 0 THEN TouchDenotes(candidate) ELSE mtimeOnDisk ]

----------------------------------------------------------------------------
(* File mode: the script *)

NoParse == pName = <<>> /\ pRev = "none" /\ pOut = Unset

NoDir == dpos = <<>> /\ dstat = NoStat /\ pending = 0 /\ writes = <<>>

Options == [supportsExif : BOOLEAN, skipEXIF : BOOLEAN, skipSummary : BOOLEAN]

\* the first revision has neither -q nor -n
OptionsOf(rev) ==
    IF rev = "new" THEN Options
    ELSE { o \in Options : ~o.skipEXIF /\ ~o.skipSummary }

InitFile ==
    /\ prog \in {"old", "new"}
    /\ opts \in OptionsOf(prog)
    /\ \E listing \in SUBSET EntryNames :
          /\ Cardinality(listing) <= MaxEntries
          /\ disk = [n \in listing |-> EntryOf(n).mtime]
    /\ pc = "main"
    /\ files = <<>> /\ index = 0
    /\ skipped = 0 /\ processed = 0 /\ errors = 0 /\ exitCode = 0
    /\ summaryObj = [date |-> 1, files |-> <<>>]
    /\ artifact = NoArtifact
    /\ cursorHidden = FALSE
    /\ exitStatus = Running
    /\ calls = <<>>
    /\ runNo = 1
    /\ NoParse /\ NoDir

\* unhideCursor: show the cursor and process.exit(exitCode); as the 'exit' listener it
\* runs on every process.exit, as the 'uncaughtException' listener on every throw
unhideCursor(code) ==
    /\ cursorHidden' = FALSE
    /\ exitStatus' = code
    /\ pc' = "exited"

\* execSync(`ls -1Ap "${targetDirectory}"`) throws: the exception is uncaught and
\* the listener exits with exitCode, which is still 0
LsThrows ==
    /\ prog \in {"old", "new"} /\ pc = "main"
    /\ unhideCursor(exitCode)
    /\ UNCHANGED <<prog, opts, disk, files, index, skipped, processed, errors, exitCode,
                   summaryObj, artifact, calls, runNo, parseVars, dirVars>>

\* the listing holds no supported file: 'No files found', process.exit(exitCode)
NoFilesFound ==
    /\ prog \in {"old", "new"} /\ pc = "main"
    /\ FilterFiles(DOMAIN disk) = <<>>
    /\ unhideCursor(exitCode)
    /\ UNCHANGED <<prog, opts, disk, files, index, skipped, processed, errors, exitCode,
                   summaryObj, artifact, calls, runNo, parseVars, dirVars>>

\* const files = ...; if (files.length) { hideCursor() ...
ListFiles ==
    /\ prog \in {"old", "new"} /\ pc = "main"
    /\ FilterFiles(DOMAIN disk) # <<>>
    /\ files' = FilterFiles(DOMAIN disk)
    /\ index' = 0
    /\ cursorHidden' = TRUE
    /\ pc' = "forEach"
    /\ UNCHANGED <<prog, opts, disk, skipped, processed, errors, exitCode, summaryObj,
                   artifact, exitStatus, calls, runNo, parseVars, dirVars>>

\* files.forEach: one call of processFile
ProcessFile ==
    /\ prog \in {"old", "new"} /\ pc = "forEach"
    /\ index < Len(files)
    /\ \E r \in {processFile(prog, opts, files[index + 1], disk[files[index + 1]])} :
         LET fileName == r.name
         IN  IF r.candidate = TypeError
             THEN /\ unhideCursor(exitCode)
                  /\ UNCHANGED <<disk, index, skipped, processed, errors, exitCode,
                                 summaryObj, calls>>
             ELSE /\ disk' = [disk EXCEPT ![fileName] = r.mtimeAfter]
                  /\ skipped' = skipped + r.skipped
                  /\ processed' = processed + r.processed
                  /\ errors' = errors + r.errors
                  /\ exitCode' = IF r.exitCode = 1 THEN 1 ELSE exitCode
                  /\ summaryObj' =
                        IF prog = "new"
                        THEN [summaryObj EXCEPT
                                !.files = SummaryFiles(@, fileName, r.touchResult)]
                        ELSE summaryObj
                  /\ calls' = Append(calls, [run |-> runNo, call |-> r])
                  /\ index' = index + 1
                  /\ UNCHANGED <<pc, cursorHidden, exitStatus>>
    /\ UNCHANGED <<prog, opts, files, artifact, runNo, parseVars, dirVars>>

\* process.exit(exitCode)
ExitStatus(code) == code

\* after the loop: write the summary JSON (second revision), print, process.exit(exitCode)
Finish ==
    /\ prog \in {"old", "new"} /\ pc = "forEach"
    /\ index = Len(files)
    /\ IF prog = "new" /\ processed > 0 /\ ~opts.skipSummary
       THEN \E written \in BOOLEAN :
               /\ artifact' = IF written THEN summaryObj ELSE artifact
               /\ errors' = IF written THEN errors ELSE errors + 1
       ELSE UNCHANGED <<artifact, errors>>
    /\ unhideCursor(ExitStatus(exitCode))
    /\ UNCHANGED <<prog, opts, disk, files, index, skipped, processed, exitCode,
                   summaryObj, calls, runNo, parseVars, dirVars>>

\* the script is started a second time on the same directory with the same options
Rerun ==
    /\ prog \in {"old", "new"} /\ pc = "exited"
    /\ runNo = 1
    /\ runNo' = runNo + 1
    /\ pc' = "main"
    /\ files' = <<>> /\ index' = 0
    /\ skipped' = 0 /\ processed' = 0 /\ errors' = 0 /\ exitCode' = 0
    /\ summaryObj' = [date |-> runNo + 1, files |-> <<>>]
    /\ exitStatus' = Running
    /\ UNCHANGED <<prog, opts, disk, artifact, cursorHidden, calls, parseVars, dirVars>>

\* SIGHUP, SIGINT, SIGTERM
Signals == {1, 2, 15}

\* an external signal arrives while the script runs: the process.on('SIGINT' ...),
\* ('SIGTERM' ...) and ('SIGHUP' ...) lines are commented out, so the default
\* disposition ends the process at once, without the 'exit' event and so without
\* unhideCursor; the shell sees the status 128 + signal
Interrupt ==
    /\ prog \in {"old", "new"} /\ pc \in {"main", "forEach"}
    /\ \E sig \in Signals : exitStatus' = 128 + sig
    /\ pc' = "exited"
    /\ UNCHANGED <<prog, opts, disk, files, index, skipped, processed, errors, exitCode,
                   summaryObj, artifact, cursorHidden, calls, runNo, parseVars, dirVars>>

NextFile ==
    LsThrows \/ NoFilesFound \/ ListFiles \/ ProcessFile \/ Finish \/ Interrupt \/ Rerun

----------------------------------------------------------------------------
(* Directory mode *)

months ==
    [ en |-> << <<"d", "u", "m", "m", "y">>,
               <<"j", "a", "n", "u", "a", "r", "y">>,
               <<"f", "e", "b", "r", "u", "a", "r", "y">>,
               <<"m", "a", "r", "c", "h">>,
               <<"a", "p", "r", "i", "l">>,
               <<"m", "a", "y">>,
               <<"j", "u", "n", "e">>,
               <<"j", "u", "l", "y">>,
               <<"a", "u", "g", "u", "s", "t">>,
               <<"s", "e", "p", "t", "e", "m", "b", "e", "r">>,
               <<"o", "c", "t", "o", "b", "e", "r">>,
               <<"n", "o", "v", "e", "m", "b", "e", "r">>,
               <<"d", "e", "c", "e", "m", "b", "e", "r">> >>,
      ro |-> << <<"d", "u", "m", "m", "y">>,
               <<"i", "a", "n", "u", "a", "r", "i", "e">>,
               <<"f", "e", "b", "r", "u", "a", "r", "i", "e">>,
               <<"m", "a", "r", "t", "i", "e">>,
               <<"a", "p", "r", "i", "l", "i", "e">>,
               <<"m", "a", "i">>,
               <<"i", "u", "n", "i", "e">>,
               <<"i", "u", "l", "i", "e">>,
               <<"a", "u", "g", "u", "s", "t">>,
               <<"s", "e", "p", "t", "e", "m", "b", "r", "i", "e">>,
               <<"o", "c", "t", "o", "m", "b", "r", "i", "e">>,
               <<"n", "o", "i", "e", "m", "b", "r", "i", "e">>,
               <<"d", "e", "c", "e", "m", "b", "r", "i", "e">> >> ]

\* Array.prototype.includes
Includes(list, x) == \E i \in 1..Len(list) : list[i] = x

\* Array.prototype.indexOf, 0-based, of an element the list includes
IndexOf(list, x) == (CHOOSE i \in 1..Len(list) : list[i] = x /\ \A j \in 1..(i - 1) : list[j] # x) - 1

\* the month number of a sub-directory name, 0 when it names no month
MonthOf(name) ==
    LET en == IF Includes(months.en, name) THEN IndexOf(months.en, name) ELSE 0
    IN  IF Includes(months.ro, name) THEN IndexOf(months.ro, name) ELSE en

\* subdir.name.includes('--') && (subdir.name.includes('toate') || subdir.name.includes('all'))
IsAllMarker(name) ==
    /\ Contains(name, <<"-", "-">>)
    /\ \/ Contains(name, <<"t", "o", "a", "t", "e">>)
       \/ Contains(name, <<"a", "l", "l">>)

\* /^\d{4}/.test(dirEnt.name)
IsYearDir(name) == Len(name) >= 4 /\ (\A i \in 1..4 : IsDigit(name[i]))

RECURSIVE ParseIntFrom(_, _)
\* parseInt(name, 10) of a name that starts with a digit
ParseIntFrom(name, acc) ==
    IF name = <<>> \/ ~IsDigit(Head(name)) THEN acc
    ELSE ParseIntFrom(Tail(name), 10 * acc + DigitValue(Head(name)))

ParseInt(name) == ParseIntFrom(name, 0)

IsLeapYear(y) == (y % 4 = 0 /\ y % 100 # 0) \/ y % 400 = 0

DaysInMonth(y, m) ==
    IF m = 2 THEN (IF IsLeapYear(y) THEN 29 ELSE 28)
    ELSE IF m \in {4, 6, 9, 11} THEN 30 ELSE 31

\* new Date(year, monthIndex, 0).getDate() for monthIndex in 0..11: day 0 of the month
\* with that 0-based index is the last day of the month before it
DayZeroOf(year, monthIndex) ==
    IF monthIndex = 0 THEN DaysInMonth(year - 1, 12) ELSE DaysInMonth(year, monthIndex)

DateTime(y, m, d, t) == [year |-> y, month |-> m, day |-> d, time |-> t]

\* new Date(`${year}-${MM}-${DD}T${time}`) in V8: a day up to 31 is accepted and a
\* day past the end of the month runs over into the next month
NewDate(y, m, d, t) ==
    IF d <= DaysInMonth(y, m) THEN DateTime(y, m, d, t)
    ELSE DateTime(y, m + 1, d - DaysInMonth(y, m), t)

\* correctDate of a year directory
YearTarget(year) == NewDate(year, 12, 31, "23:59:59")

\* correctDate of a month sub-directory: formattedDay is
\* new Date(year, month - 1, 0).getDate()
MonthTarget(year, month) == NewDate(year, month, DayZeroOf(year, month - 1), "23:59:59")

\* correctDate of an 'all' sub-directory
AllTarget(year) == NewDate(year, 1, 1, "00:00:01")

\* mtime.toISOString() !== correctDate.toISOString()
DatesDiffer(mtime, correctDate) == mtime # correctDate

\* the directories the top path can hold, in listing order, and the sub-directories a
\* year directory can hold, in listing order
TopDirs == << <<"2", "0", "2", "0">>, <<"2", "0", "2", "1">>, <<"m", "i", "s", "c">> >>

SubDirs ==
    << <<"j", "a", "n", "u", "a", "r", "y">>,
       <<"m", "a", "r", "c", "h">>,
       <<"f", "e", "b", "r", "u", "a", "r", "y">>,
       <<"a", "p", "r", "i", "l">>,
       <<"a", "u", "g", "u", "s", "t">>,
       <<"d", "e", "c", "e", "m", "b", "e", "r">>,
       <<"i", "a", "n", "u", "a", "r", "i", "e">>,
       <<"f", "e", "b", "r", "u", "a", "r", "i", "e">>,
       <<"m", "a", "r", "t", "i", "e">>,
       <<"2", "0", "2", "1", "-", "-", "a", "l", "l">>,
       <<"e", "x", "t", "r", "a">> >>

\* a modification time that is no target
Stale == DateTime(1999, 6, 15, "12:00:00")

\* what fs.stat can report for a directory of the given year
StatTimes(year) ==
    {Stale, DateTime(year, 1, 1, "00:00:01")}
    \cup { DateTime(year, m, d, "23:59:59") : m \in 1..12, d \in 28..31 }

\* the most directories iterated at the top level, and the most sub-directories of one
MaxDirs == 2
MaxSubdirs == 2

InitDir ==
    /\ prog = "dir"
    /\ pc = "readdir"
    /\ dpos = [dir |-> 0, ndirs |-> 0, year |-> 0, sub |-> 0, nsubs |-> 0]
    /\ dstat = NoStat
    /\ pending = 0
    /\ writes = <<>>
    /\ exitStatus = Running
    /\ runNo = 1
    /\ opts = <<>> /\ disk = <<>> /\ files = <<>> /\ index = 0
    /\ skipped = 0 /\ processed = 0 /\ errors = 0 /\ exitCode = 0
    /\ summaryObj = <<>> /\ artifact = NoArtifact /\ cursorHidden = FALSE /\ calls = <<>>
    /\ NoParse

dirRest == <<prog, opts, disk, files, index, skipped, processed, errors, exitCode,
             summaryObj, artifact, cursorHidden, calls, runNo, parseVars>>

\* die(message): console.error(message); exit(1)
die ==
    /\ pc' = "exited"
    /\ exitStatus' = 1

\* getSubdirs(topPath) rejects, or the filtered list is empty: die
ReadDirDies ==
    /\ prog = "dir" /\ pc = "readdir"
    /\ die
    /\ UNCHANGED <<dpos, dstat, pending, writes, dirRest>>

\* getSubdirs(topPath) lists at least one directory whose name starts with no '.'
ReadDir ==
    /\ prog = "dir" /\ pc = "readdir"
    /\ pc' = "dirloop"
    /\ UNCHANGED <<dpos, dstat, pending, writes, exitStatus, dirRest>>

\* for (const dirEnt of dirList): the next directory of the list; a year directory is
\* stat'ed, any other is passed over
NextDirEnt ==
    /\ prog = "dir" /\ pc = "dirloop"
    /\ dpos.ndirs < MaxDirs
    /\ \E d \in (dpos.dir + 1)..Len(TopDirs) :
          /\ ~StartsWith(TopDirs[d], <<".">>)
          /\ dpos' = [dir |-> d, ndirs |-> dpos.ndirs + 1,
                      year |-> IF IsYearDir(TopDirs[d]) THEN ParseInt(TopDirs[d]) ELSE 0,
                      sub |-> 0, nsubs |-> 0]
          /\ pc' = IF IsYearDir(TopDirs[d]) THEN "statYear" ELSE "dirloop"
    /\ dstat' = NoStat
    /\ writes' = <<>>
    /\ UNCHANGED <<pending, exitStatus, dirRest>>

\* updateTimes({path, atime, mtime, origTime}): fs.utimes is called and not awaited
updateTimes(path, origTime, mtime) ==
    /\ pending' = pending + 1
    /\ writes' = Append(writes, [path |-> path, from |-> origTime, target |-> mtime])

\* fs.stat(p) of the year directory resolves: compare, updateTimes if the times
\* differ, then getSubdirs(p)
YearDir ==
    /\ prog = "dir" /\ pc = "statYear"
    /\ \E mtime \in StatTimes(dpos.year) :
          /\ dstat' = mtime
          /\ IF DatesDiffer(mtime, YearTarget(dpos.year))
             THEN updateTimes(<<TopDirs[dpos.dir]>>, mtime, YearTarget(dpos.year))
             ELSE UNCHANGED <<pending, writes>>
    /\ pc' = "subloop"
    /\ UNCHANGED <<dpos, exitStatus, dirRest>>

\* for (const subdir of subdirs): the next sub-directory is stat'ed
NextSubdir ==
    /\ prog = "dir" /\ pc = "subloop"
    /\ dpos.nsubs < MaxSubdirs
    /\ \E k \in (dpos.sub + 1)..Len(SubDirs) :
          dpos' = [dpos EXCEPT !.sub = k, !.nsubs = @ + 1]
    /\ pc' = "statSub"
    /\ dstat' = NoStat
    /\ writes' = <<>>
    /\ UNCHANGED <<pending, exitStatus, dirRest>>

\* fs.stat of the sub-directory resolves: a month sub-directory and an 'all'
\* sub-directory are compared with their correctDate and updated if the times differ
Subdir ==
    /\ prog = "dir" /\ pc = "statSub"
    /\ \E mtime \in StatTimes(dpos.year) :
          LET name  == SubDirs[dpos.sub]
              path  == <<TopDirs[dpos.dir], name>>
              month == MonthOf(name)
          IN  /\ dstat' = mtime
              /\ IF month > 0 /\ DatesDiffer(mtime, MonthTarget(dpos.year, month))
                 THEN updateTimes(path, mtime, MonthTarget(dpos.year, month))
                 ELSE IF IsAllMarker(name) /\ DatesDiffer(mtime, AllTarget(dpos.year))
                 THEN updateTimes(path, mtime, AllTarget(dpos.year))
                 ELSE UNCHANGED <<pending, writes>>
    /\ pc' = "subloop"
    /\ UNCHANGED <<dpos, exitStatus, dirRest>>

\* the sub-directories of the year directory are done
SubdirsDone ==
    /\ prog = "dir" /\ pc = "subloop"
    /\ pc' = "dirloop"
    /\ UNCHANGED <<dpos, dstat, pending, writes, exitStatus, dirRest>>

\* the directories are done: the script has nothing more to run
DirsDone ==
    /\ prog = "dir" /\ pc = "dirloop"
    /\ dpos.ndirs > 0
    /\ pc' = "drain"
    /\ UNCHANGED <<dpos, dstat, pending, writes, exitStatus, dirRest>>

\* a pending fs.utimes resolves
UtimesResolves ==
    /\ prog = "dir" /\ pc # "exited"
    /\ pending > 0
    /\ pending' = pending - 1
    /\ UNCHANGED <<pc, dpos, dstat, writes, exitStatus, dirRest>>

\* a pending fs.utimes rejects: die(error.message)
UtimesRejects ==
    /\ prog = "dir" /\ pc # "exited"
    /\ pending > 0
    /\ die
    /\ UNCHANGED <<dpos, dstat, pending, writes, dirRest>>

\* nothing is pending any more: the process ends with status 0
DirExit ==
    /\ prog = "dir" /\ pc = "drain"
    /\ pending = 0
    /\ pc' = "exited"
    /\ exitStatus' = 0
    /\ UNCHANGED <<dpos, dstat, pending, writes, dirRest>>

NextDir ==
    \/ ReadDirDies \/ ReadDir \/ NextDirEnt \/ YearDir \/ NextSubdir \/ Subdir
    \/ SubdirsDone \/ DirsDone \/ UtimesResolves \/ UtimesRejects \/ DirExit

Init == InitFile \/ InitDir

Next == NextFile \/ NextDir

Spec == Init /\ [][Next]_vars

----------------------------------------------------------------------------
(* Properties of parseFileName (under SpecParse) *)

AllDigits(s, positions) == \A i \in positions : IsDigit(s[i])

\* the name without its extension: everything before the last '.'
RECURSIVE Stem(_)
Stem(n) == IF n = <<>> \/ n[Len(n)] = "." THEN SliceOff(n, 1) ELSE Stem(SliceOff(n, 1))

ExtensionOf(n) == SubSeq(n, Len(Stem(n)) + 2, Len(n))

Midnight == <<"0", "0", ":", "0", "0", ":", "0", "0">>

\* YYYY-MM-DD HH-mm-ss.eee
HyphenForm(n) ==
    /\ Len(n) = 23
    /\ AllDigits(n, {1, 2, 3, 4, 6, 7, 9, 10, 12, 13, 15, 16, 18, 19})
    /\ n[5] = "-" /\ n[8] = "-" /\ n[11] = " " /\ n[14] = "-" /\ n[17] = "-" /\ n[20] = "."

\* YYYY-MM-DD HH:mm:ss with the digits of a name of HyphenForm
HyphenFormStamp(n) == [i \in 1..19 |-> IF i \in {14, 17} THEN ":" ELSE n[i]]

\* YYYY-MM-DD HH:mm:00 with the date, hour and minute digits of a name of HyphenForm
HyphenFormNoSeconds(n) == [i \in 1..19 |-> IF i \in {14, 17} THEN ":"
                                           ELSE IF i > 17 THEN "0" ELSE n[i]]

\* C1 as stated: a name YYYY-MM-DD HH-mm-ss.eee is parsed to YYYY-MM-DD HH:mm:ss with
\* its digits preserved, with the old pattern and with the changed one.
C1_BothRevisions ==
    (pOut # Unset /\ HyphenForm(pName)) => pOut = HyphenFormStamp(pName)

\* C1 as amended: a name YYYY-MM-DD HH-mm-ss.eee is parsed to YYYY-MM-DD HH:mm:ss with
\* its digits preserved by the old pattern; the changed pattern does not read seconds
\* that follow a hyphen and returns YYYY-MM-DD HH:mm:00.
C1_HyphenForm ==
    (pOut # Unset /\ HyphenForm(pName)) =>
        /\ pRev = "old" => pOut = HyphenFormStamp(pName)
        /\ pRev = "new" => pOut = HyphenFormNoSeconds(pName)

C1_Witness ==
    /\ HyphenForm(pName) /\ pRev = "old" /\ pOut = HyphenFormStamp(pName)
    /\ SubSeq(pName, 12, 19) = <<"0", "9", "-", "4", "8", "-", "0", "2">>

\* YYYYMMDD, then no digit before the extension
CompactDateOnly(n) ==
    /\ Len(Stem(n)) >= 8
    /\ AllDigits(n, 1..8)
    /\ \A i \in 9..Len(Stem(n)) : ~IsDigit(n[i])

\* C2: a name whose date is YYYYMMDD without separators and that has no time digits is
\* parsed to YYYY-MM-DD 00:00:00, the separators re-inserted.
C2_CompactDate ==
    (pOut # Unset /\ CompactDateOnly(pName)) =>
        pOut = SubSeq(pName, 1, 4) \o <<"-">> \o SubSeq(pName, 5, 6) \o <<"-">>
               \o SubSeq(pName, 7, 8) \o <<" ">> \o Midnight

\* YYYY-MM-DD HH?mm.ext, ? one character that is no digit, ext a supported extension
HourMinuteForm(n) ==
    /\ Len(Stem(n)) = 16
    /\ ExtensionOf(n) \in Extensions
    /\ AllDigits(n, {1, 2, 3, 4, 6, 7, 9, 10, 12, 13, 15, 16})
    /\ n[5] = "-" /\ n[8] = "-" /\ n[11] = " " /\ ~IsDigit(n[14])

\* C3: a supported name with a date, hour and minute but no seconds is parsed to
\* YYYY-MM-DD HH:mm:00, the time part exactly 8 characters.
C3_SecondsAppended ==
    (pOut # Unset /\ HourMinuteForm(pName)) =>
        pOut = SubSeq(pName, 1, 13) \o <<":">> \o SubSeq(pName, 15, 16) \o <<":", "0", "0">>

----------------------------------------------------------------------------
(* Properties of the scripts (under Spec) *)

FileMode == prog \in {"old", "new"}

\* C4: when the script runs twice in a row on the same directory, every item whose
\* first run read the modification time and ended Changed or Skipped is Skipped by the
\* second run, which performs no write for it.
C4_Idempotent ==
    FileMode =>
        \A i \in DOMAIN calls : \A j \in DOMAIN calls :
            ( /\ calls[i].run = 1 /\ calls[j].run = 2
              /\ calls[i].call.name = calls[j].call.name
              /\ EntryOf(calls[i].call.name).statOk
              /\ calls[i].call.outcome \in {"Changed", "Skipped"} )
            => (calls[j].call.outcome = "Skipped" /\ ~calls[j].call.touched)

ChangedNames ==
    LET mine == SelectSeq(calls, LAMBDA c : c.run = runNo /\ c.call.touchResult = 0)
    IN  [i \in 1..Len(mine) |-> mine[i].call.name]

\* C7: in the revision with summaryObj, at every item boundary summaryObj.files has as
\* many entries as the Changed counter, holds exactly the names of the items whose
\* write succeeded, in processing (sorted) order without duplicates, and date is the
\* value recorded at the start of the run; an artifact persisted by the run lists
\* exactly that many names.
C7_SummaryFiles ==
    (prog = "new") =>
        /\ Len(summaryObj.files) = processed
        /\ summaryObj.files = ChangedNames
        /\ \A i \in 1..Len(summaryObj.files) : \A j \in 1..Len(summaryObj.files) :
              i < j => StringLess(summaryObj.files[i], summaryObj.files[j])
        /\ summaryObj.date = runNo
        /\ (artifact # NoArtifact /\ artifact.date = runNo) =>
              /\ pc = "exited"
              /\ artifact = summaryObj
              /\ Len(artifact.files) = processed /\ processed > 0

C7_Witness ==
    /\ prog = "new" /\ pc = "exited" /\ runNo = 2
    /\ Len(files) = 2 /\ processed = 1 /\ skipped = 1
    /\ artifact = summaryObj /\ Len(artifact.files) = 1

\* the name ends in '.' and one of the supported extensions, whatever the case
HasSupportedExtension(fileName) ==
    \E e \in Extensions : EndsWith(LowerCase(fileName), <<".">> \o e)

\* C8: the entries processed in file mode are exactly the entries of the directory
\* that are no directories, do not begin with '._' and end in a supported extension.
C8_SupportedOnly ==
    (FileMode /\ pc = "forEach") =>
        { files[i] : i \in DOMAIN files } =
            { n \in DOMAIN disk : /\ n[Len(n)] # "/"
                                  /\ ~StartsWith(n, <<".", "_">>)
                                  /\ HasSupportedExtension(n) }

\* C9: at the end of a file-mode run the exit status is not 0 when an item ended in
\* WriteError or in ParseError.
C9_ExitStatus ==
    (FileMode /\ pc = "exited") =>
        ( (\E i \in DOMAIN calls :
              /\ calls[i].run = runNo
              /\ calls[i].call.outcome \in {"WriteError", "ParseError"})
          => exitStatus # 0 )

\* C10: when the listing of the target directory throws, the file-mode run ends at
\* once with an exit status that is not 0, no item processed.
C10_ListingFails ==
    [][LsThrows => (pc' = "exited" /\ exitStatus' # 0 /\ calls' = calls)]_vars

\* a step in which the write of an item's timestamp fails: in file mode a processFile
\* call whose touchFile returns 1, in directory mode a rejected fs.utimes
WriteFails ==
    \/ /\ FileMode /\ Len(calls') = Len(calls) + 1
       /\ calls'[Len(calls')].call.outcome = "WriteError"
    \/ /\ prog = "dir" /\ pending > 0 /\ exitStatus' = 1

\* C11: in file mode and in directory mode a failure to write the timestamp of an
\* item does not end the run: the loop goes on to the items after it.
C11_FailureIsolation ==
    [][WriteFails => (pc' # "exited" /\ exitStatus' = Running)]_vars

\* C12: when getModifiedTime returns no value for an item, the error counter is
\* incremented, touchFile is not called for the item, the item is not counted as
\* Changed and its name is not added to summaryObj.files.
C12_StatFailure ==
    FileMode =>
        \A i \in DOMAIN calls :
            LET c == calls[i].call
            IN  (~EntryOf(c.name).statOk /\ c.mTime = <<>>) =>
                   /\ c.errors >= 1
                   /\ ~c.touched /\ c.touchResult = NotTouched
                   /\ c.processed = 0 /\ c.outcome # "Changed"
                   /\ (calls[i].run = runNo) =>
                         \A k \in DOMAIN summaryObj.files : summaryObj.files[k] # c.name

\* C13: processing is strictly sequential in both modes: the write issued for an item
\* has settled before the stat of the next item begins, so no stat is outstanding
\* while a write is in flight and at most one write is in flight.
C13_Sequential ==
    /\ FileMode => pending = 0
    /\ (prog = "dir") =>
          /\ pending <= 1
          /\ (pc \in {"statYear", "statSub"}) => pending = 0

\* C14: once hideCursor has run, every way the process ends (end of the batch,
\* process.exit, an uncaught exception, SIGINT, SIGTERM or SIGHUP) restores the
\* cursor: no ended run leaves the cursor hidden.
C14_CursorRestored ==
    (FileMode /\ pc = "exited") => ~cursorHidden

\* a name whose stem ends in a space or an underscore and six digits HHmmss, the time
\* fragment with zero separators (`2014-12-25 114802.jpg`, `20141225_114802.jpg`)
ZeroSeparatorForm(n) ==
    LET st == Stem(n)
        k  == Len(st)
    IN  /\ k >= 15
        /\ AllDigits(st, (k - 5)..k)
        /\ st[k - 6] \in {" ", "_"}
        /\ IsDigit(st[k - 7])

\* C15: for a file name whose time fragment is digits with zero separators,
\* parseFileName re-chunks the time digits in groups of two joined with ':', so the
\* result ends in the HH:mm:ss of the name and not in the default 00:00:00.
C15_ZeroSeparatorTime ==
    (pOut # Unset /\ ZeroSeparatorForm(pName)) =>
        LET st == Stem(pName)
            k  == Len(st)
        IN  /\ Len(pOut) >= TimeLength
            /\ SubSeq(pOut, Len(pOut) - TimeLength + 1, Len(pOut)) =
                  <<st[k - 5], st[k - 4], ":", st[k - 3], st[k - 2], ":", st[k - 1], st[k]>>

\* a name that begins with a date YY-MM-DD with a 2-digit year and single separators
TwoDigitYearForm(n) ==
    /\ Len(n) >= 9
    /\ AllDigits(n, {1, 2, 4, 5, 7, 8})
    /\ ~IsDigit(n[3]) /\ ~IsDigit(n[6]) /\ ~IsDigit(n[9])

\* C16: for a file name whose date fragment has a 2-digit year, parseFileName returns
\* a candidate whose date part is 20YY-MM-DD: a 4-digit year, the shape DDDD-DD-DD.
C16_YearExpanded ==
    (pOut # Unset /\ TwoDigitYearForm(pName)) =>
        /\ Len(pOut) >= 10
        /\ SubSeq(pOut, 1, 10) =
              <<"2", "0", pName[1], pName[2], "-", pName[4], pName[5], "-",
                pName[7], pName[8]>>

\* the items of the current run whose touchFile returned 1
WriteFailures ==
    Len(SelectSeq(calls, LAMBDA c : c.run = runNo /\ c.call.touchResult = 1))

\* at every item boundary of a file-mode run
AccountingBalance ==
    FileMode =>
        /\ processed + skipped + WriteFailures = index
        /\ index <= Len(files)
        /\ (exitCode = 1) <=> (WriteFailures > 0)
        /\ (pc = "exited") => processed + skipped <= Len(files)

\* every step of a file-mode run
AccountingStep ==
    (FileMode /\ runNo' = runNo) =>
        /\ processed' >= processed /\ skipped' >= skipped /\ errors' >= errors
        /\ (exitCode = 1) => (exitCode' = 1)
        /\ (index' # index) =>
              /\ index' = index + 1
              /\ \/ processed' = processed + 1 /\ skipped' = skipped /\ exitCode' = exitCode
                 \/ processed' = processed /\ skipped' = skipped + 1 /\ exitCode' = exitCode
                 \/ processed' = processed /\ skipped' = skipped /\ exitCode' = 1
                    /\ errors' > errors

\* C17: in a file-mode run the counters never decrease and processing one item does
\* exactly one of: Changed + 1, Skipped + 1, or a write failure that sets the exit
\* code to 1 and increments neither; so at every item boundary Changed + Skipped +
\* write failures is the number of items processed so far, at the end of the run
\* Changed + Skipped is at most the number of files found, and the exit code, once
\* 1, is never reset to 0.
C17_Accounting ==
    []AccountingBalance /\ [][AccountingStep]_vars

\* a run over two files has ended: one Changed, one write failure, exit code 1
C17_Witness ==
    /\ FileMode /\ pc = "exited" /\ index = 2 /\ Len(files) = 2
    /\ processed = 1 /\ skipped = 0 /\ WriteFailures = 1
    /\ exitCode = 1 /\ exitStatus = 1

====
